---------------------------- MODULE Spec2Model ----------------------------
(***************************************************************************)
(* A model of intelliflow-core: the pydantic contracts                     *)
(* (src/intelliflow_core/contracts.py) and the Streamlit governance log    *)
(* adapter (src/intelliflow_core/governance_ui.py), and the pure helpers   *)
(* truncate_text and calculate_cost (src/intelliflow_core/helpers.py).     *)
(*                                                                         *)
(* Python values are tagged tuples, so that a value's type is part of the  *)
(* value and validation can tell a str from None or from an enum member.   *)
(***************************************************************************)
EXTENDS Integers, Sequences, FiniteSets, TLC

VARIABLES
    \* ---- governance log adapter (governance_ui.py) ----
    session_state,  \* st.session_state: a function from the keys it holds
    heap,           \* the GovernanceLogEntry objects created, by object id
    entry,          \* the object id add_governance_log last returned (0: none)
    rendered,       \* the object ids last handed to _render_log_entry, in order
    caption,        \* the st.caption text of the last render
    op,             \* the last adapter operation
    call_args,      \* the arguments, when the last operation was add_governance_log
    returned,       \* the object ids add_governance_log returned, in call order
    init_called,    \* whether the application ever called init_governance_state
    now,            \* the reading of datetime.utcnow()
    \* ---- schema construction (contracts.py) ----
    kind,           \* the schema class under construction
    m,              \* the field map passed to the constructor
    obj,            \* the constructor's result
    dumped,         \* obj.model_dump()
    again,          \* the result of constructing from dumped
    pc,             \* the caller's position
    \* ---- helper calls (helpers.py) ----
    call,           \* the helper called and its arguments
    result,         \* what the call returned
    result2,        \* what calculate_cost returned for input_tokens + delta
    hpc             \* the position of the helper's caller

vars == <<session_state, heap, entry, rendered, caption, op, call_args, returned,
          init_called, now, kind, m, obj, dumped, again, pc,
          call, result, result2, hpc>>
adapterVars == <<session_state, heap, entry, rendered, caption, op, call_args,
                 returned, init_called>>
schemaVars == <<kind, m, obj, dumped, again, pc>>
helperVars == <<call, result, result2, hpc>>

----------------------------------------------------------------------------
(* Bounds of the model *)

\* add_governance_log calls in one session
MaxLogs == 3
\* the largest token count and cost amount a field map carries
MaxTokens == 1
\* the longest text passed to truncate_text
MaxTextLen == 5
\* max_length ranges from -NegLengths to MaxTextLen + 1
NegLengths == 2
\* token counts passed to calculate_cost range from -1 to MaxCostTokens
MaxCostTokens == 3
\* the largest delta added to input_tokens
MaxDelta == 2

----------------------------------------------------------------------------
(* Python values *)

None == <<"NoneType">>
str(s) == <<"str", s>>
int(i) == <<"int", i>>
float(x) == <<"float", x>>
bool(b) == <<"bool", b>>
datetime(t) == <<"datetime", t>>
dict(d) == <<"dict", d>>
Member(name) == <<"AuditEventType", name>>
\* bytes and bytearray values, by the text of the literal: bytes("EVT_1") is
\* b"EVT_1" and bytes("\\xff") is b"\xff", one byte that is not UTF-8
bytes(b) == <<"bytes", b>>
bytearray(b) == <<"bytearray", b>>

TypeOf(v) == v[1]

\* a dict from the keys in D: the function f restricted to D
Restrict(f, D) == [k \in D |-> f[k]]

Reverse(s) == [i \in 1..Len(s) |-> s[Len(s) + 1 - i]]

IsPrefix(s, t) == Len(s) <= Len(t) /\ \A i \in 1..Len(s) : s[i] = t[i]

----------------------------------------------------------------------------
(* contracts.py: AuditEventType *)

AuditEventType ==
    [ USER_QUERY       |-> "user_query",
      USER_FEEDBACK    |-> "user_feedback",
      AI_RESPONSE      |-> "ai_response",
      AI_ESCALATION    |-> "ai_escalation",
      SYSTEM_ERROR     |-> "system_error",
      SYSTEM_STARTUP   |-> "system_startup",
      SYSTEM_SHUTDOWN  |-> "system_shutdown",
      POLICY_CHECK     |-> "policy_check",
      POLICY_VIOLATION |-> "policy_violation",
      HUMAN_OVERRIDE   |-> "human_override",
      DATA_ACCESS      |-> "data_access",
      DATA_EXPORT      |-> "data_export",
      AUTH_LOGIN       |-> "auth_login",
      AUTH_LOGOUT      |-> "auth_logout",
      AUTH_FAILURE     |-> "auth_failure" ]

\* AuditEventType(value): the member with that value
MemberOfValue(s) == CHOOSE n \in DOMAIN AuditEventType : AuditEventType[n] = s

IsEnumValue(s) == \E n \in DOMAIN AuditEventType : AuditEventType[n] = s

----------------------------------------------------------------------------
(* contracts.py: the fields of the three schemas, in declaration order.    *)
(* type: the annotation; required: Field(...); default: the default value  *)
(* (DefaultFactory: default_factory=datetime.utcnow); ge0: Field(ge=0).    *)

DefaultFactory == <<"default_factory", "datetime.utcnow">>

FieldInfo(name, type, required, default, ge0) ==
    [name |-> name, type |-> type, required |-> required,
     default |-> default, ge0 |-> ge0]

AuditEventSchemaFields ==
    << FieldInfo("event_id",   "str",           TRUE,  None, FALSE),
       FieldInfo("event_type", "AuditEventType", TRUE, None, FALSE),
       FieldInfo("timestamp",  "datetime",      FALSE, DefaultFactory, FALSE),
       FieldInfo("component",  "str",           TRUE,  None, FALSE),
       FieldInfo("action",     "str",           TRUE,  None, FALSE),
       FieldInfo("user_id",    "Optional[str]", FALSE, None, FALSE),
       FieldInfo("session_id", "Optional[str]", FALSE, None, FALSE),
       FieldInfo("success",    "bool",          FALSE, bool(TRUE), FALSE),
       FieldInfo("details",    "Optional[dict]", FALSE, None, FALSE),
       FieldInfo("metadata",   "Optional[dict]", FALSE, None, FALSE) >>

CostTrackingSchemaFields ==
    << FieldInfo("event_id",      "str",      TRUE,  None, FALSE),
       FieldInfo("timestamp",     "datetime", FALSE, DefaultFactory, FALSE),
       FieldInfo("model",         "str",      TRUE,  None, FALSE),
       FieldInfo("input_tokens",  "int",      TRUE,  None, TRUE),
       FieldInfo("output_tokens", "int",      TRUE,  None, TRUE),
       FieldInfo("total_tokens",  "int",      TRUE,  None, TRUE),
       FieldInfo("cost_usd",      "float",    TRUE,  None, TRUE),
       FieldInfo("component",     "Optional[str]", FALSE, None, FALSE),
       FieldInfo("session_id",    "Optional[str]", FALSE, None, FALSE) >>

GovernanceLogEntryFields ==
    << FieldInfo("timestamp", "datetime", FALSE, DefaultFactory, FALSE),
       FieldInfo("component", "str",      TRUE,  None, FALSE),
       FieldInfo("action",    "str",      TRUE,  None, FALSE),
       FieldInfo("success",   "bool",     FALSE, bool(TRUE), FALSE),
       FieldInfo("details",   "Optional[str]", FALSE, None, FALSE) >>

Schemas == {"AuditEventSchema", "CostTrackingSchema", "GovernanceLogEntry"}

model_fields(cls) ==
    CASE cls = "AuditEventSchema"   -> AuditEventSchemaFields
      [] cls = "CostTrackingSchema" -> CostTrackingSchemaFields
      [] cls = "GovernanceLogEntry" -> GovernanceLogEntryFields

\* the model_config without the one setting the source makes
model_config_default(cls) ==
    [use_enum_values |-> FALSE, frozen |-> FALSE, validate_assignment |-> FALSE]

\* model_config: only AuditEventSchema sets one, ConfigDict(use_enum_values=True);
\* frozen and validate_assignment keep pydantic's defaults in all three classes
model_config(cls) ==
    [use_enum_values |-> (cls = "AuditEventSchema"),
     frozen |-> FALSE, validate_assignment |-> FALSE]

FieldNames(cls) == {model_fields(cls)[i].name : i \in 1..Len(model_fields(cls))}

FieldOf(cls, name) ==
    LET fs == model_fields(cls)
    IN  fs[CHOOSE i \in 1..Len(fs) : fs[i].name = name]

----------------------------------------------------------------------------
(* contracts.py: construction (pydantic validation of a field map) *)

Ok(v) == [ok |-> TRUE, val |-> v]
Err(e) == [ok |-> FALSE, val |-> e]

\* AuditEventType is a subclass of str: a member is a str whose content is
\* the member's value
IsStr(v) == TypeOf(v) \in {"str", "AuditEventType"}

\* the plain str of a str or of a member
as_str(v) ==
    IF TypeOf(v) = "AuditEventType" THEN str(AuditEventType[v[2]]) ELSE v

\* the strings read as a number, limited to the plain numerals the model
\* passes: pydantic also reads a numeral with a sign, surrounding blanks,
\* underscores or a zero fraction, and an ISO date as a datetime; no such
\* string is among the model's values, whose other strings are not numerals
str_as_int == ("0" :> 0) @@ ("1" :> 1) @@ ("5" :> 5)

\* the strings read as a bool: "1", "on", "t", "true", "y", "yes" and "0",
\* "off", "f", "false", "n", "no", compared without regard to the case of
\* the letters, so each word is listed in every casing
TrueStrings ==
    {
     "1", "ON", "On", "oN", "on", "T", "t", "TRUE", "TRUe", "TRuE", "TRue",
     "TrUE", "TrUe", "TruE", "True", "tRUE", "tRUe", "tRuE", "tRue",
     "trUE", "trUe", "truE", "true", "Y", "y", "YES", "YEs", "YeS", "Yes",
     "yES", "yEs", "yeS", "yes" }

FalseStrings ==
    {
     "0", "OFF", "OFf", "OfF", "Off", "oFF", "oFf", "ofF", "off", "F", "f",
     "FALSE", "FALSe", "FALsE", "FALse", "FAlSE", "FAlSe", "FAlsE",
     "FAlse", "FaLSE", "FaLSe", "FaLsE", "FaLse", "FalSE", "FalSe",
     "FalsE", "False", "fALSE", "fALSe", "fALsE", "fALse", "fAlSE",
     "fAlSe", "fAlsE", "fAlse", "faLSE", "faLSe", "faLsE", "faLse",
     "falSE", "falSe", "falsE", "false", "N", "n", "NO", "No", "nO", "no" }

str_as_bool ==
    [s \in TrueStrings |-> TRUE] @@ [s \in FalseStrings |-> FALSE]

\* the datetime of a unix timestamp: aware, with tzinfo UTC, where a reading
\* of datetime.utcnow() is naive
datetime_from_timestamp(n) == <<"datetime", n, "utc">>

\* the literals of the model's bytes values that are not UTF-8
NotUtf8 == {"\\xff"}

\* the values pydantic reads as text when it parses a number, a bool or a
\* datetime: a str, a member of a str subclass, and bytes (not a bytearray)
IsText(v) == IsStr(v) \/ TypeOf(v) = "bytes"

\* whether the text can be had: bytes must decode as UTF-8
TextOk(v) == IsStr(v) \/ v[2] \notin NotUtf8

\* the text: the bytes of the model decode to the text of their literal
text_of(v) == IF IsStr(v) THEN as_str(v)[2] ELSE v[2]

\* a str field takes a str, a member of a str subclass as its plain str, and
\* bytes or a bytearray decoded as UTF-8
validate_str(v) ==
    CASE IsStr(v) -> Ok(as_str(v))
      [] TypeOf(v) \in {"bytes", "bytearray"} ->
           IF v[2] \in NotUtf8 THEN Err("string_unicode") ELSE Ok(str(v[2]))
      [] OTHER -> Err("string_type")

\* validation of an AuditEventType field: a member is accepted, and so is
\* whatever a str field reads as the value of a member; use_enum_values then
\* keeps the member's value, not the member
validate_enum(cfg, v) ==
    IF TypeOf(v) = "AuditEventType" /\ v[2] \in DOMAIN AuditEventType
    THEN Ok(IF cfg.use_enum_values THEN str(AuditEventType[v[2]]) ELSE v)
    ELSE LET s == validate_str(v)
         IN  IF s.ok /\ IsEnumValue(s.val[2])
             THEN Ok(IF cfg.use_enum_values
                     THEN s.val ELSE Member(MemberOfValue(s.val[2])))
             ELSE Err("enum")

\* an int field takes an int, a bool (a subclass of int), a numeral and a
\* float without a fractional part (the only floats of the model)
validate_int(v) ==
    CASE TypeOf(v) = "int"   -> Ok(v)
      [] TypeOf(v) = "bool"  -> Ok(int(IF v[2] THEN 1 ELSE 0))
      [] IsText(v)           ->
           IF TextOk(v) /\ text_of(v) \in DOMAIN str_as_int
           THEN Ok(int(str_as_int[text_of(v)]))
           ELSE Err("int_parsing")
      [] TypeOf(v) = "float" -> Ok(int(v[2]))
      [] OTHER               -> Err("int_type")

\* a float field takes a float, an int, a bool and a numeral
validate_float(v) ==
    CASE TypeOf(v) = "float" -> Ok(v)
      [] IsText(v)           ->
           IF TextOk(v) /\ text_of(v) \in DOMAIN str_as_int
           THEN Ok(float(str_as_int[text_of(v)]))
           ELSE Err("float_parsing")
      [] TypeOf(v) = "int"   -> Ok(float(v[2]))
      [] TypeOf(v) = "bool"  -> Ok(float(IF v[2] THEN 1 ELSE 0))
      [] OTHER               -> Err("float_type")

\* a bool field takes a bool, one of the strings read as a bool, and the
\* numbers 0 and 1
validate_bool(v) ==
    CASE TypeOf(v) = "bool" -> Ok(v)
      [] IsText(v)          ->
           IF TextOk(v) /\ text_of(v) \in DOMAIN str_as_bool
           THEN Ok(bool(str_as_bool[text_of(v)]))
           ELSE Err("bool_parsing")
      [] TypeOf(v) \in {"int", "float"} ->
           IF v[2] \in {0, 1} THEN Ok(bool(v[2] = 1)) ELSE Err("bool_parsing")
      [] OTHER              -> Err("bool_type")

\* a datetime field takes a datetime, a number as a unix timestamp (a bool
\* is refused) and a numeral likewise; the other strings the model passes
\* are neither a datetime nor a date
validate_datetime(v) ==
    CASE TypeOf(v) = "datetime" -> Ok(v)
      [] IsText(v)              ->
           IF TextOk(v) /\ text_of(v) \in DOMAIN str_as_int
           THEN Ok(datetime_from_timestamp(str_as_int[text_of(v)]))
           ELSE Err("datetime_from_date_parsing")
      [] TypeOf(v) \in {"int", "float"} -> Ok(datetime_from_timestamp(v[2]))
      [] OTHER                  -> Err("datetime_type")

\* validation of a value against a field's annotation, in pydantic's default
\* (lax) mode: a value of another type is converted where pydantic converts
validate_type(cfg, type, v) ==
    CASE type = "str" -> validate_str(v)
      [] type = "Optional[str]" ->
           IF v = None THEN Ok(v) ELSE validate_str(v)
      [] type = "int" -> validate_int(v)
      [] type = "float" -> validate_float(v)
      [] type = "bool" -> validate_bool(v)
      [] type = "datetime" -> validate_datetime(v)
      [] type = "Optional[dict]" ->
           IF v = None \/ TypeOf(v) = "dict" THEN Ok(v) ELSE Err("dict_type")
      [] type = "AuditEventType" -> validate_enum(cfg, v)

\* the mutant of validate_constraint that checks no Field(ge=0)
validate_constraint_none(f, r) == r

\* Field(ge=0) on the validated number
validate_constraint(f, r) ==
    IF r.ok /\ f.ge0 /\ ~(r.val[2] >= 0) THEN Err("greater_than_equal") ELSE r

\* the mutant of validate_field in which a str field has min_length=1
validate_field_min_length(cfg, f, v) ==
    IF f.type = "str" /\ v = str("")
    THEN Err("string_too_short")
    ELSE validate_constraint(f, validate_type(cfg, f.type, v))

\* validation of the value v supplied for field f
validate_field(cfg, f, v) ==
    validate_constraint(f, validate_type(cfg, f.type, v))

\* the mutant of field_result in which no field is required
field_result_no_required(cfg, f, data, t) ==
    IF f.name \in DOMAIN data
    THEN validate_field(cfg, f, data[f.name])
    ELSE Ok(IF f.default = DefaultFactory THEN datetime(t) ELSE f.default)

\* one field of a construction: the supplied value validated, or the default
\* (not validated; default_factory is called at time t), or "missing"
field_result(cfg, f, data, t) ==
    IF f.name \in DOMAIN data
    THEN validate_field(cfg, f, data[f.name])
    ELSE IF f.required
    THEN Err("missing")
    ELSE Ok(IF f.default = DefaultFactory THEN datetime(t) ELSE f.default)

NoFields == [n \in {} |-> None]

\* cls(**data) at time t: the object, or the ValidationError with one error
\* per offending field
Construct(cls, data, t) ==
    LET fs == model_fields(cls)
        cfg == model_config(cls)
        r(n) == field_result(cfg, FieldOf(cls, n), data, t)
        errors == {<<n, r(n).val>> : n \in {x \in FieldNames(cls) : ~r(x).ok}}
    IN  IF errors = {}
        THEN [ok |-> TRUE, cls |-> cls, errors |-> {},
              fields |-> [n \in FieldNames(cls) |-> r(n).val]]
        ELSE [ok |-> FALSE, cls |-> cls, errors |-> errors, fields |-> NoFields]

\* o.model_dump(): the field values as held (python mode converts none of
\* these field types)
model_dump(o) == [n \in DOMAIN o.fields |-> o.fields[n]]

\* o.name = v: BaseModel.__setattr__ refuses for a frozen model, validates
\* under validate_assignment, and otherwise stores v as given
setattr(o, name, v) ==
    LET cfg == model_config(o.cls)
    IN  IF cfg.frozen \/ name \notin DOMAIN o.fields
        THEN o
        ELSE IF cfg.validate_assignment
        THEN LET r == validate_field(cfg, FieldOf(o.cls, name), v)
             IN  IF r.ok THEN [o EXCEPT !.fields[name] = r.val] ELSE o
        ELSE [o EXCEPT !.fields[name] = v]

----------------------------------------------------------------------------
(* governance_ui.py: the governance log adapter *)

\* the mutant of init_governance_state that always stores a new list
init_governance_state_reset(ss) ==
    [k \in DOMAIN ss \cup {"governance_logs"} |->
        IF k = "governance_logs" THEN <<>> ELSE ss[k]]

\* init_governance_state(): st.session_state after the call
init_governance_state(ss) ==
    IF "governance_logs" \notin DOMAIN ss
    THEN [k \in DOMAIN ss \cup {"governance_logs"} |->
            IF k = "governance_logs" THEN <<>> ELSE ss[k]]
    ELSE ss

\* the parameters of add_governance_log after its defaults
\* (success: bool = True, details: Optional[str] = None)
AddArgs(component, action, kwargs) ==
    [component |-> component,
     action    |-> action,
     success   |-> IF "success" \in DOMAIN kwargs THEN kwargs["success"] ELSE bool(TRUE),
     details   |-> IF "details" \in DOMAIN kwargs THEN kwargs["details"] ELSE None]

\* the mutant of NewEntry that passes the action as the component too
NewEntrySwapped(args, t) ==
    Construct("GovernanceLogEntry",
              [timestamp |-> datetime(t), component |-> args.action,
               action |-> args.action, success |-> args.success,
               details |-> args.details], t)

\* GovernanceLogEntry(timestamp=datetime.utcnow(), component=..., ...)
NewEntry(args, t) ==
    Construct("GovernanceLogEntry",
              [timestamp |-> datetime(t), component |-> args.component,
               action |-> args.action, success |-> args.success,
               details |-> args.details], t)

\* the mutant of list_append that inserts at the front
list_insert_front(logs, x) == <<x>> \o logs

\* logs.append(x)
list_append(logs, x) == Append(logs, x)

\* the mutant of logs_in_display_order that keeps the append order
logs_in_append_order(logs) == logs

\* reversed(logs): the order in which render_governance_panel walks the list
logs_in_display_order(logs) == Reverse(logs)

\* the list in the governance_logs slot (empty when the slot is absent)
governance_logs ==
    IF "governance_logs" \in DOMAIN session_state
    THEN session_state["governance_logs"]
    ELSE <<>>

\* the values a caller passes to add_governance_log
Components == {str("A"), str("B")}
Actions == {str("login")}
Absent == <<"absent">>
Kwargs ==
    {Restrict(f, {k \in DOMAIN f : f[k] # Absent}) :
        f \in {[success |-> Absent,       details |-> Absent],
               [success |-> bool(FALSE),  details |-> str("d")],
               [success |-> bool(TRUE),   details |-> None]}}

\* the assignments a caller makes to an entry it was handed
CallerAssignments ==
    {<<"component", str("B")>>, <<"success", bool(FALSE)>>}

InitGovernanceState ==
    /\ session_state' = init_governance_state(session_state)
    /\ op' = "init_governance_state"
    /\ init_called' = TRUE
    /\ call_args' = NoFields
    /\ UNCHANGED <<heap, entry, rendered, caption, returned, now>>
    /\ UNCHANGED <<schemaVars, helperVars>>

AddGovernanceLog(component, action, kwargs) ==
    LET ss == init_governance_state(session_state)
        e  == NewEntry(AddArgs(component, action, kwargs), now)
        id == Len(heap) + 1
    IN  /\ Len(heap) < MaxLogs
        /\ now' = now + 1
        /\ call_args' = [component |-> component, action |-> action,
                    kwargs |-> kwargs]
        /\ IF e.ok
           THEN /\ heap' = Append(heap, e)
                /\ session_state' =
                     [ss EXCEPT !["governance_logs"] = list_append(@, id)]
                /\ entry' = id
                /\ returned' = Append(returned, id)
                /\ op' = "add_governance_log"
           ELSE /\ session_state' = ss
                /\ op' = "ValidationError"
                /\ UNCHANGED <<heap, entry, returned>>
        /\ UNCHANGED <<rendered, caption, init_called>>
        /\ UNCHANGED <<schemaVars, helperVars>>

RenderGovernancePanel ==
    LET ss   == init_governance_state(session_state)
        logs == ss["governance_logs"]
    IN  /\ session_state' = ss
        /\ IF logs = <<>>
           THEN /\ caption' = <<"No governance events recorded yet.">>
                /\ rendered' = <<>>
           ELSE /\ caption' = <<"Showing ", Len(logs), " event(s)">>
                /\ rendered' = logs_in_display_order(logs)
        /\ op' = "render_governance_panel"
        /\ call_args' = NoFields
        /\ UNCHANGED <<heap, entry, returned, init_called, now>>
        /\ UNCHANGED <<schemaVars, helperVars>>

\* the caller assigns to a field of the entry add_governance_log returned:
\* the returned object is the one the list holds
CallerSetAttr(name, v) ==
    /\ entry # 0
    /\ heap' = [heap EXCEPT ![entry] = setattr(@, name, v)]
    /\ op' = "caller_setattr"
    /\ call_args' = NoFields
    /\ UNCHANGED <<session_state, entry, rendered, caption, returned,
                   init_called, now>>
    /\ UNCHANGED <<schemaVars, helperVars>>

NoObj == [ok |-> FALSE, cls |-> "", errors |-> {}, fields |-> NoFields]

SchemaIdle ==
    /\ kind = ""
    /\ m = NoFields
    /\ obj = NoObj
    /\ dumped = NoFields
    /\ again = NoObj
    /\ pc = "idle"

NoCall == [fn |-> "none"]
NoResult == <<"no result">>

HelperIdle ==
    /\ call = NoCall
    /\ result = NoResult
    /\ result2 = NoResult
    /\ hpc = "idle"

\* a new session: st.session_state holds no key
AdapterIdle ==
    /\ session_state = [k \in {} |-> <<>>]
    /\ heap = <<>>
    /\ entry = 0
    /\ rendered = <<>>
    /\ caption = <<>>
    /\ op = "new_session"
    /\ call_args = NoFields
    /\ returned = <<>>
    /\ init_called = FALSE

Init ==
    /\ AdapterIdle
    /\ now = 0
    /\ SchemaIdle
    /\ HelperIdle

Next ==
    \/ InitGovernanceState
    \/ \E c \in Components, a \in Actions, kw \in Kwargs :
         AddGovernanceLog(c, a, kw)
    \/ RenderGovernancePanel
    \/ \E x \in CallerAssignments : CallerSetAttr(x[1], x[2])

Spec == Init /\ [][Next]_vars

----------------------------------------------------------------------------
(* Properties of the governance log adapter (under Spec) *)

\* the entries the list holds, in list order
StoredEntries == [i \in 1..Len(governance_logs) |-> heap[governance_logs[i]]]

AdapterOps ==
    {"init_governance_state", "add_governance_log", "render_governance_panel"}

\* C1: after add_governance_log returned e1, ..., en, render_governance_panel
\* hands exactly en, ..., e1 to display: every entry once, in the reverse of
\* the order of the calls.
C1_DisplayNewestFirst ==
    op = "render_governance_panel" =>
        /\ Len(rendered) = Len(returned)
        /\ \A i \in 1..Len(returned) :
             rendered[i] = returned[Len(returned) + 1 - i]

\* three entries A, B, C were appended and the panel shows C, B, A
C1_Witness ==
    /\ op = "render_governance_panel"
    /\ returned = <<1, 2, 3>>
    /\ rendered = <<3, 2, 1>>

\* C2: governance_logs is append-only under init_governance_state,
\* add_governance_log and render_governance_panel: each call leaves the old
\* sequence (the objects and their contents) a prefix of the new one, and init
\* and render leave its length unchanged. Prefix at every later point follows
\* step by step.
C2_AppendOnly ==
    [][op' \in AdapterOps =>
        /\ IsPrefix(governance_logs, governance_logs')
        /\ IsPrefix(StoredEntries, StoredEntries')
        /\ op' # "add_governance_log" =>
             Len(governance_logs') = Len(governance_logs)]_vars

\* an append onto a list that already holds two entries
C2_Witness ==
    /\ op = "add_governance_log"
    /\ Len(governance_logs) = 3

\* C3: init_governance_state creates an empty list when the slot is absent and
\* leaves session_state exactly as it is when the slot exists, empty or not.
C3_InitIdempotent ==
    [][op' = "init_governance_state" =>
        /\ "governance_logs" \in DOMAIN session_state'
        /\ "governance_logs" \in DOMAIN session_state =>
             session_state' = session_state
        /\ "governance_logs" \notin DOMAIN session_state =>
             session_state'["governance_logs"] = <<>>]_vars

\* init_governance_state called after two appends, the list still holding both
C3_Witness ==
    /\ op = "init_governance_state"
    /\ Len(governance_logs) = 2
    /\ governance_logs = returned

\* C4: every add_governance_log call succeeds, the slot present or not: the
\* list grows by one, its new last element is the returned entry, and the entry
\* carries the component, action, success and details passed (success True and
\* details None when not passed).
C4_AddAlwaysSucceeds ==
    [][op' \in {"add_governance_log", "ValidationError"} =>
        /\ op' = "add_governance_log"
        /\ Len(governance_logs') = Len(governance_logs) + 1
        /\ governance_logs'[Len(governance_logs')] = entry'
        /\ LET e  == heap'[entry'].fields
               kw == call_args'.kwargs
           IN  /\ e["component"] = call_args'.component
               /\ e["action"] = call_args'.action
               /\ e["success"] = IF "success" \in DOMAIN kw
                                 THEN kw["success"] ELSE bool(TRUE)
               /\ e["details"] = IF "details" \in DOMAIN kw
                                 THEN kw["details"] ELSE None]_vars

\* add_governance_log called with the defaults in a session in which
\* init_governance_state was never called
C4_Witness ==
    /\ op = "add_governance_log"
    /\ ~init_called
    /\ call_args.kwargs = NoFields
    /\ Len(governance_logs) = 1
    /\ heap[entry].fields["success"] = bool(TRUE)
    /\ heap[entry].fields["details"] = None

\* C5: nothing a caller does with a value the adapter handed out changes the
\* list or the entries stored in it.
C5_ReadOnlyView ==
    [][op' = "caller_setattr" => StoredEntries' = StoredEntries]_vars

----------------------------------------------------------------------------
(* Schema construction: a caller constructs one record from a field map,   *)
(* then serializes it and constructs again, or assigns to one of its       *)
(* fields.                                                                 *)

Maps(options) ==
    {Restrict(f, {k \in DOMAIN f : f[k] # Absent}) : f \in options}

TokenCounts == {Absent} \cup {int(i) : i \in -1..MaxTokens}
Amounts == {Absent} \cup {float(x) : x \in -1..MaxTokens}

\* values of another type than the field's, which validation converts or
\* refuses
OtherTokenCounts == {float(-1), float(1), str("1"), str("x"), bool(TRUE)}
OtherAmounts == {int(-1), int(0), bool(TRUE)}

\* the field maps a caller passes to a constructor
FieldMaps(cls) ==
    CASE cls = "AuditEventSchema" ->
           Maps([event_id   : {Absent, None, str(""), str("EVT_1"),
                               bytes("EVT_1")},
                 event_type : {Absent, Member("USER_QUERY"), str("user_query"),
                               str("USER_QUERY"), Member("AI_RESPONSE")},
                 timestamp  : {Absent, datetime(5)},
                 component  : {Absent, None, str(""), str("ChatUI"),
                               Member("USER_QUERY")},
                 action     : {Absent, str(""), str("query"), int(1)},
                 user_id    : {Absent, str("user_001")},
                 session_id : {Absent, None},
                 success    : {Absent, bool(FALSE)},
                 details    : {Absent, dict("tokens")},
                 metadata   : {Absent, dict("version")}])
      [] cls = "CostTrackingSchema" ->
           Maps([event_id      : {Absent, str("EVT_COST_001")},
                 timestamp     : {Absent, datetime(5)},
                 model         : {Absent, str("gpt-4o-mini")},
                 input_tokens  : TokenCounts \cup OtherTokenCounts,
                 output_tokens : TokenCounts,
                 total_tokens  : TokenCounts,
                 cost_usd      : Amounts \cup OtherAmounts,
                 component     : {Absent, str("AIEngine")},
                 session_id    : {Absent, None}])
      [] cls = "GovernanceLogEntry" ->
           Maps([timestamp : {Absent, datetime(5), int(1), str("x")},
                 component : {Absent, None, str(""), str("Auth"),
                               Member("USER_QUERY"), int(1), bytes("Auth"),
                               bytes("\\xff"), bytearray("")},
                 action    : {Absent, str(""), str("User login")},
                 success   : {Absent, bool(TRUE), bool(FALSE), int(1), int(5),
                               str("yes"), str("Off"), str("maybe"),
                               bytes("no"), bytearray("no")},
                 details   : {Absent, None, str("SSO")}])

\* the assignments a caller makes to a record it constructed
Assignments(cls) ==
    CASE cls = "AuditEventSchema" ->
           {<<"component", str("changed")>>, <<"success", bool(FALSE)>>}
      [] cls = "CostTrackingSchema" ->
           {<<"input_tokens", int(-1)>>, <<"model", str("gpt-4o")>>}
      [] cls = "GovernanceLogEntry" ->
           {<<"action", str("changed")>>, <<"details", None>>}

ConstructRecord ==
    /\ pc = "start"
    /\ obj' = Construct(kind, m, now)
    /\ now' = now + 1
    /\ pc' = IF obj'.ok THEN "constructed" ELSE "ValidationError"
    /\ UNCHANGED <<kind, m, dumped, again>>
    /\ UNCHANGED <<adapterVars, helperVars>>

ModelDump ==
    /\ pc = "constructed"
    /\ dumped' = model_dump(obj)
    /\ pc' = "dumped"
    /\ UNCHANGED <<kind, m, obj, again, now>>
    /\ UNCHANGED <<adapterVars, helperVars>>

Reconstruct ==
    /\ pc = "dumped"
    /\ again' = Construct(kind, dumped, now)
    /\ now' = now + 1
    /\ pc' = "reconstructed"
    /\ UNCHANGED <<kind, m, obj, dumped>>
    /\ UNCHANGED <<adapterVars, helperVars>>

AssignField(name, v) ==
    /\ pc = "constructed"
    /\ obj' = setattr(obj, name, v)
    /\ pc' = "assigned"
    /\ UNCHANGED <<kind, m, dumped, again, now>>
    /\ UNCHANGED <<adapterVars, helperVars>>

InitSchema ==
    /\ AdapterIdle
    /\ now = 0
    /\ kind \in Schemas
    /\ m \in FieldMaps(kind)
    /\ obj = NoObj
    /\ dumped = NoFields
    /\ again = NoObj
    /\ pc = "start"
    /\ HelperIdle

NextSchema ==
    \/ ConstructRecord
    \/ ModelDump
    \/ Reconstruct
    \/ \E x \in Assignments(kind) : AssignField(x[1], x[2])

SpecSchema == InitSchema /\ [][NextSchema]_vars

----------------------------------------------------------------------------
(* Properties of schema construction (under SpecSchema) *)

\* the constructor has run on m and its result is in obj, untouched
Constructed(cls) ==
    /\ kind = cls
    /\ pc \in {"constructed", "ValidationError", "dumped", "reconstructed"}

\* C6: a constructed record is immutable: once constructed, its fields are the
\* same in every later state.
C6_Immutable ==
    [][obj.ok => obj'.fields = obj.fields]_vars

CostNumbers == {"input_tokens", "output_tokens", "total_tokens", "cost_usd"}
CostRequired == {"event_id", "model"} \cup CostNumbers

\* C7: CostTrackingSchema construction fails, naming the field, for every
\* negative number (int or float) given as input_tokens, output_tokens,
\* total_tokens or cost_usd; it succeeds when all required fields are given
\* and the four are non-negative numbers; a constructed record has all four
\* >= 0.
C7_NonNegative ==
    Constructed("CostTrackingSchema") =>
        LET numbers == {f \in CostNumbers \cap DOMAIN m :
                           TypeOf(m[f]) \in {"int", "float"}}
            negative == {f \in numbers : m[f][2] < 0}
        IN  /\ \A f \in negative :
                 ~obj.ok /\ <<f, "greater_than_equal">> \in obj.errors
            /\ (negative = {} /\ CostRequired \subseteq DOMAIN m
                    /\ CostNumbers \subseteq numbers) => obj.ok
            /\ obj.ok => \A f \in CostNumbers : obj.fields[f][2] >= 0

\* a negative input_tokens, all else valid, is refused
C7_Witness ==
    /\ Constructed("CostTrackingSchema")
    /\ CostRequired \subseteq DOMAIN m
    /\ m["input_tokens"] = int(-1)
    /\ m["output_tokens"] = int(1)
    /\ m["total_tokens"] = int(0)
    /\ m["cost_usd"] = float(0)
    /\ obj.errors = {<<"input_tokens", "greater_than_equal">>}

AuditRequired == {"event_id", "event_type", "component", "action"}
AuditStrings == {"event_id", "component", "action"}

EventTypeValid(v) ==
    \E n \in DOMAIN AuditEventType : v = Member(n) \/ v = str(AuditEventType[n])

\* C8: AuditEventSchema construction fails, naming the field as missing, when
\* event_id, event_type, component or action is absent, whatever else is
\* given; given exactly those four, as non-empty strings and a valid event
\* type, it succeeds with success True and user_id, session_id, details and
\* metadata None.
C8_RequiredFields ==
    Constructed("AuditEventSchema") =>
        /\ \A f \in AuditRequired \ DOMAIN m :
             ~obj.ok /\ <<f, "missing">> \in obj.errors
        /\ ( /\ DOMAIN m = AuditRequired
             /\ \A f \in AuditStrings : TypeOf(m[f]) = "str" /\ m[f] # str("")
             /\ EventTypeValid(m["event_type"]) )
           => /\ obj.ok
              /\ obj.fields["success"] = bool(TRUE)
              /\ \A f \in {"user_id", "session_id", "details", "metadata"} :
                   obj.fields[f] = None

\* component alone is absent and construction fails
C8_Witness ==
    /\ Constructed("AuditEventSchema")
    /\ DOMAIN m = AuditRequired \ {"component"}
    /\ m["event_id"] = str("EVT_1")
    /\ m["event_type"] = Member("USER_QUERY")
    /\ obj.errors = {<<"component", "missing">>}

\* C9 as stated: no constructed AuditEventSchema has an empty event_id,
\* component or action.
C9_NonEmptyStrings ==
    (Constructed("AuditEventSchema") /\ obj.ok) =>
        \A f \in AuditStrings : obj.fields[f] # str("")

\* C9 as amended: event_id, component and action are required strings that may
\* be empty: construction is refused when one of them is absent; it succeeds
\* when all three are given as strings, empty or not (the event type valid),
\* and the record then holds the three strings as given (a member of the str
\* subclass AuditEventType as its value); every constructed record holds a
\* str, possibly empty, in each of the three.
C9_RequiredStrings ==
    Constructed("AuditEventSchema") =>
        /\ \A f \in AuditStrings : f \notin DOMAIN m => ~obj.ok
        /\ ( /\ AuditRequired \subseteq DOMAIN m
             /\ \A f \in AuditStrings : IsStr(m[f])
             /\ EventTypeValid(m["event_type"]) )
           => obj.ok /\ \A f \in AuditStrings : obj.fields[f] = as_str(m[f])
        /\ obj.ok => \A f \in AuditStrings : TypeOf(obj.fields[f]) = "str"

\* an AuditEventSchema constructed with an empty component
C9_Witness ==
    /\ Constructed("AuditEventSchema")
    /\ obj.ok
    /\ m["component"] = str("")
    /\ obj.fields["component"] = str("")

\* C10: for each schema and every field map that constructs, constructing
\* again from model_dump() of the record succeeds and gives the same value for
\* every field; an AuditEventSchema holds and dumps event_type as the string
\* value of the member.
C10_RoundTrip ==
    pc = "reconstructed" =>
        /\ again.ok
        /\ again.cls = obj.cls
        /\ DOMAIN again.fields = DOMAIN obj.fields
        /\ \A n \in DOMAIN obj.fields : again.fields[n] = obj.fields[n]
        /\ kind = "AuditEventSchema" =>
             /\ TypeOf(obj.fields["event_type"]) = "str"
             /\ IsEnumValue(obj.fields["event_type"][2])
             /\ dumped["event_type"] = obj.fields["event_type"]

\* an audit event given the member USER_QUERY and no timestamp, dumped as
\* "user_query" with the construction time, and constructed again later
C10_Witness ==
    /\ pc = "reconstructed"
    /\ kind = "AuditEventSchema"
    /\ m["event_type"] = Member("USER_QUERY")
    /\ "timestamp" \notin DOMAIN m
    /\ dumped["event_type"] = str("user_query")
    /\ dumped["timestamp"] = datetime(0)
    /\ again.fields["timestamp"] = datetime(0)
    /\ now = 2

----------------------------------------------------------------------------
(* helpers.py: truncate_text. A text is the sequence of its characters. *)

\* max_length: int = 100
DefaultMaxLength == 100

Min(a, b) == IF a <= b THEN a ELSE b
Max(a, b) == IF a >= b THEN a ELSE b

\* text[:stop], a Python slice: a negative stop counts from the end, and the
\* bounds are clamped to the text
slice_to(text, stop) ==
    LET n == Len(text)
        k == IF stop < 0 THEN Max(n + stop, 0) ELSE Min(stop, n)
    IN  SubSeq(text, 1, k)

Ellipsis == <<".", ".", ".">>

\* the mutant of truncate_text that appends the ellipsis to max_length characters
truncate_text_no_room(text, max_length) ==
    IF text = <<>> THEN <<>>
    ELSE IF Len(text) <= max_length THEN text
    ELSE IF max_length <= 3 THEN slice_to(text, max_length)
    ELSE slice_to(text, max_length) \o Ellipsis

truncate_text(text, max_length) ==
    IF text = <<>> THEN <<>>
    ELSE IF Len(text) <= max_length THEN text
    ELSE IF max_length <= 3 THEN slice_to(text, max_length)
    ELSE slice_to(text, max_length - 3) \o Ellipsis

Alphabet == {"a", "b", "."}

RECURSIVE TextsOfLen(_)
TextsOfLen(n) ==
    IF n = 0 THEN {<<>>}
    ELSE {Append(t, c) : t \in TextsOfLen(n - 1), c \in Alphabet}

\* the texts passed to truncate_text
Texts == UNION {TextsOfLen(n) : n \in 0..MaxTextLen}

\* the max_length arguments passed (Absent: not passed)
MaxLengths == {Absent} \cup {int(k) : k \in (0 - NegLengths)..(MaxTextLen + 1)}

TruncateCalls ==
    [fn : {"truncate_text"}, text : Texts, max_length : MaxLengths]

\* the parameter max_length after its default
MaxLengthOf(c) ==
    IF c.max_length = Absent THEN DefaultMaxLength ELSE c.max_length[2]

TruncateText ==
    /\ hpc = "start"
    /\ call.fn = "truncate_text"
    /\ result' = truncate_text(call.text, MaxLengthOf(call))
    /\ hpc' = "done"
    /\ UNCHANGED <<call, result2, now>>
    /\ UNCHANGED <<adapterVars, schemaVars>>

----------------------------------------------------------------------------
(* helpers.py: calculate_cost.                                             *)
(* Amounts are integers: a rate is in units of 0.00001 USD per 1000        *)
(* tokens, which is 0.00000001 USD per token; a cost before rounding is in *)
(* units of 0.00000001 USD and a returned cost in units of 0.000001 USD.   *)
(* The float sum carries an error far below 0.00000001 USD, so round(x, 6) *)
(* returns the multiple of 0.000001 nearest the exact sum; when the exact  *)
(* sum lies halfway between two multiples, the error decides which one,    *)
(* and tie ("down" or "up") stands for that.                               *)

\* the mutant of MODEL_COSTS with the rates of gpt-4o exchanged
MODEL_COSTS_swapped ==
    ("gpt-4o-mini"   :> [input |-> 15,   output |-> 60]) @@
    ("gpt-4o"        :> [input |-> 1500, output |-> 500]) @@
    ("gpt-4-turbo"   :> [input |-> 1000, output |-> 3000]) @@
    ("gpt-4"         :> [input |-> 3000, output |-> 6000]) @@
    ("gpt-3.5-turbo" :> [input |-> 50,   output |-> 150])

\* MODEL_COSTS: a dict keyed by the model names as the source spells them
MODEL_COSTS ==
    ("gpt-4o-mini"   :> [input |-> 15,   output |-> 60]) @@
    ("gpt-4o"        :> [input |-> 500,  output |-> 1500]) @@
    ("gpt-4-turbo"   :> [input |-> 1000, output |-> 3000]) @@
    ("gpt-4"         :> [input |-> 3000, output |-> 6000]) @@
    ("gpt-3.5-turbo" :> [input |-> 50,   output |-> 150])

\* round(x, 6) of the float whose exact value is n units of 0.00000001
round_6(n, tie) ==
    LET q == n \div 100
        r == n % 100
    IN  IF r < 50 THEN q
        ELSE IF r > 50 THEN q + 1
        ELSE IF tie = "up" THEN q + 1 ELSE q

\* the mutant of calculate_cost that subtracts the input cost
calculate_cost_minus(input_tokens, output_tokens, model, tie) ==
    IF model \notin DOMAIN MODEL_COSTS
    THEN 0
    ELSE LET costs == MODEL_COSTS[model]
             input_cost == input_tokens * costs.input
             output_cost == output_tokens * costs.output
         IN  round_6(output_cost - input_cost, tie)

calculate_cost(input_tokens, output_tokens, model, tie) ==
    IF model \notin DOMAIN MODEL_COSTS
    THEN 0
    ELSE LET costs == MODEL_COSTS[model]
             input_cost == input_tokens * costs.input
             output_cost == output_tokens * costs.output
         IN  round_6(input_cost + output_cost, tie)

\* the token counts passed to calculate_cost
CostTokens == (-1..MaxCostTokens) \cup {500, 1000}

\* the model names passed (Absent: not passed, the default "gpt-4o-mini")
ModelNames ==
    {Absent, str("gpt-4o-mini"), str("gpt-4o"), str("gpt-4-turbo"),
     str("gpt-4"), str("gpt-3.5-turbo"), str("unknown-model"), str("gpt_4o")}

CostCalls ==
    [fn : {"calculate_cost"}, input_tokens : CostTokens,
     output_tokens : CostTokens, model : ModelNames, delta : 0..MaxDelta,
     tie : {"down", "up"}, tie2 : {"down", "up"}]

\* the parameter model after its default
ModelOf(c) == IF c.model = Absent THEN "gpt-4o-mini" ELSE c.model[2]

CalculateCost ==
    /\ hpc = "start"
    /\ call.fn = "calculate_cost"
    /\ result' = calculate_cost(call.input_tokens, call.output_tokens,
                                ModelOf(call), call.tie)
    /\ hpc' = "called"
    /\ UNCHANGED <<call, result2, now>>
    /\ UNCHANGED <<adapterVars, schemaVars>>

\* the same call with input_tokens + delta; a call with the same arguments
\* (delta = 0) computes the same float
CalculateCostMore ==
    /\ hpc = "called"
    /\ result2' = calculate_cost(call.input_tokens + call.delta,
                                 call.output_tokens, ModelOf(call),
                                 IF call.delta = 0 THEN call.tie ELSE call.tie2)
    /\ hpc' = "done"
    /\ UNCHANGED <<call, result, now>>
    /\ UNCHANGED <<adapterVars, schemaVars>>

InitHelpers ==
    /\ AdapterIdle
    /\ now = 0
    /\ SchemaIdle
    /\ \/ call \in TruncateCalls
       \/ call \in CostCalls
    /\ result = NoResult
    /\ result2 = NoResult
    /\ hpc = "start"

NextHelpers ==
    \/ TruncateText
    \/ CalculateCost
    \/ CalculateCostMore

SpecHelpers == InitHelpers /\ [][NextHelpers]_vars

----------------------------------------------------------------------------
(* Properties of the helpers (under SpecHelpers) *)

Truncated ==
    /\ call.fn = "truncate_text"
    /\ hpc = "done"

\* C11: with max_length > 3 the result of truncate_text is never longer than
\* max_length; a text of at most max_length characters is returned unchanged;
\* a longer one gives its first max_length - 3 characters followed by "...",
\* of length exactly max_length.
C11_TruncationLaw ==
    (Truncated /\ MaxLengthOf(call) > 3) =>
        LET text == call.text
            max_length == MaxLengthOf(call)
        IN  /\ Len(result) <= max_length
            /\ Len(text) <= max_length => result = text
            /\ Len(text) > max_length =>
                 /\ Len(result) = max_length
                 /\ \A i \in 1..(max_length - 3) : result[i] = text[i]
                 /\ \A i \in (max_length - 2)..max_length : result[i] = "."

\* a text of five characters cut to four: its first character and "..."
C11_Witness ==
    /\ Truncated
    /\ call.text = <<"a", "b", "a", "b", "a">>
    /\ call.max_length = int(4)
    /\ result = <<"a", ".", ".", ".">>

\* C12: with max_length <= 3, zero and negative values included, the result
\* is the first max_length characters of the text, no ellipsis appended, and
\* is never longer than max_length (0 for a negative max_length).
C12_ShortMaxLength ==
    (Truncated /\ MaxLengthOf(call) <= 3) =>
        LET text == call.text
            limit == Max(MaxLengthOf(call), 0)
        IN  /\ Len(result) <= limit
            /\ Len(result) = Min(Len(text), limit)
            /\ \A i \in 1..Len(result) : result[i] = text[i]

CostCalled ==
    /\ call.fn = "calculate_cost"
    /\ hpc \in {"called", "done"}

\* the rates C13 states, USD per 1000 tokens, in units of 0.00001 USD
C13_Rates(model) ==
    CASE model = "gpt-4o-mini"   -> <<15, 60>>
      [] model = "gpt-4o"        -> <<500, 1500>>
      [] model = "gpt-4-turbo"   -> <<1000, 3000>>
      [] model = "gpt-4"         -> <<3000, 6000>>
      [] model = "gpt-3.5-turbo" -> <<50, 150>>

C13_Table ==
    {"gpt-4o-mini", "gpt-4o", "gpt-4-turbo", "gpt-4", "gpt-3.5-turbo"}

\* C13: calculate_cost returns 0.0 for a model absent from the table; for a
\* model in it, the multiple of 0.000001 nearest
\* input_tokens/1000 * input_rate + output_tokens/1000 * output_rate with the
\* rates the claim lists; calculate_cost(1000, 500, "gpt-4o-mini") is 0.00045
\* and calculate_cost(0, 0, m) is 0.0.
C13_CostFormula ==
    CostCalled =>
        LET a == call.input_tokens
            b == call.output_tokens
            model == ModelOf(call)
        IN  /\ model \notin C13_Table => result = 0
            /\ model \in C13_Table =>
                 LET exact == a * C13_Rates(model)[1] + b * C13_Rates(model)[2]
                 IN  /\ 100 * result - exact <= 50
                     /\ exact - 100 * result <= 50
            /\ (a = 1000 /\ b = 500 /\ model = "gpt-4o-mini") => result = 450
            /\ (a = 0 /\ b = 0) => result = 0

\* calculate_cost(1000, 500) with the default model returns 0.00045
C13_Witness ==
    /\ CostCalled
    /\ call.input_tokens = 1000
    /\ call.output_tokens = 500
    /\ call.model = Absent
    /\ result = 450

\* C14: for a model in the table and delta >= 0,
\* calculate_cost(a, b, model) <= calculate_cost(a + delta, b, model),
\* whichever way the rounding of a halfway sum falls.
C14_CostMonotone ==
    (call.fn = "calculate_cost" /\ hpc = "done" /\ ModelOf(call) \in C13_Table)
        => result <= result2

\* calculate_cost(1, 0, "gpt-4") = 0.00003 and calculate_cost(2, 0, "gpt-4") = 0.00006
C14_Witness ==
    /\ call.fn = "calculate_cost"
    /\ hpc = "done"
    /\ call.model = str("gpt-4")
    /\ call.input_tokens = 1
    /\ call.output_tokens = 0
    /\ call.delta = 1
    /\ result = 30
    /\ result2 = 60

=============================================================================
